---- MODULE Spec2Model ----
(***************************************************************************)
(* The OpenMM example notebooks: yukawa/yukawa.ipynb (Yukawa potential on  *)
(* rigid bodies) and continuum_nacl/nacl.ipynb (electrolyte in a continuum *)
(* solvent).  The convenience functions of the notebooks are operators     *)
(* over the force objects of the system; the cells of a notebook, run top  *)
(* to bottom, are the actions of Spec; SpecCalls calls the convenience     *)
(* functions of yukawa.ipynb in any order on a system that has been set up,*)
(* SpecHandles calls rigidifyResidue on objects other than those of the    *)
(* setup cell, and SpecCenter runs centerOfMass on sets of points.         *)
(*                                                                         *)
(* Lengths.  Coordinates are integers in units of 0.1 nm.  A distance is   *)
(* the Euclidean norm of a coordinate difference and is in general         *)
(* irrational (the diagonal of the 0.4 nm square), so a distance d is held *)
(* exactly as the integer d*d: Norm returns it, a bond's length field      *)
(* holds it, and Less compares it with the square of the threshold.        *)
(*                                                                         *)
(* Angles.  centerOfMass is run on boxes of 4 or 8 length units and points *)
(* on the integer grid, so that every angle 2*pi*x/box is a multiple of an *)
(* eighth of a turn.  Cosines and sines are then numbers (a + b*sqrt(2))/2 *)
(* with integers a, b, held exactly as [a, b], and so are their sums.  An  *)
(* angle returned by arctan2 is held as the vector it is the angle of.     *)
(*                                                                         *)
(* Charges.  scaleCharges is run with scale = 1/sqrt(epsilon_r), which is  *)
(* irrational; a charge is held exactly as [c, e], the number              *)
(* c * scale^e.                                                            *)
(*                                                                         *)
(* Quantities.  The lengths of the analysis cell are products of powers of *)
(* constants and of square roots of rationals; a quantity is held exactly  *)
(* as the square of its rational coefficient and twice the exponent of     *)
(* every symbol.                                                           *)
(***************************************************************************)
EXTENDS Integers, Sequences, FiniteSets, TLC

VARIABLES
    script,       \* the notebook that runs: "yukawa" or "nacl"
    pc,           \* the statement of the notebook that runs next
    input,        \* the files on disk and the knobs of the settings cell
    useMinimize,  \* settings cell: useMinimize
    pdb,          \* app.PDBFile: [residues, positions, box]
    system,       \* system.getForces(): the sequence of force objects
    harmonic,     \* global name harmonic: index into system, None if unbound
    nonbonded,    \* global name nonbonded: index into system, None if unbound
    ri,           \* residue loop: number of residues already visited
    integrator,   \* TRUE once the LangevinIntegrator is constructed
    simulation,   \* app.Simulation: context, step counter, reporters
    calls,        \* the calls of convenience functions made so far, with arguments
    err,          \* the exception that ended the script, "none" if none
    trace,        \* the statements executed so far, in order
    com,          \* centerOfMass: its arguments and what it returned
    analysis      \* nacl.ipynb, analysis cell: N, V, lB, lD and the trajectory

vars == <<script, pc, input, useMinimize, pdb, system, harmonic, nonbonded, ri,
          integrator, simulation, calls, err, trace, com, analysis>>

None == 0

(***************************************************************************)
(* Bounds of the model.                                                    *)
(***************************************************************************)
MaxAtoms == 3
MaxParams == 2
MaxCalls == 2
MaxPoints == 2

(***************************************************************************)
(* Settings cell and default arguments.                                    *)
(***************************************************************************)
steps_eq == 5000
steps_production == 20000
steps_production_nacl == 400000
DefaultThreshold == 6
DefaultK == 2500
TrajectoryInterval == 100
PDBInterval == 1000
epsilon_r == 80
lBValue == 7
kappaValue == 0

\* ------------------------------------------------------------ helpers

Min(S) == CHOOSE x \in S : \A y \in S : x <= y

RECURSIVE SeqsUpTo(_, _)
SeqsUpTo(S, n) ==
    IF n = 0 THEN {<<>>}
    ELSE LET shorter == SeqsUpTo(S, n - 1)
         IN shorter \cup {Append(s, x) : s \in {t \in shorter : Len(t) = n - 1}, x \in S}

\* ------------------------------------------------- convenience functions

\* a force object as its constructor leaves it; dielectric is the reaction
\* field dielectric, None until a notebook sets it
NewForce(forcetype) ==
    [type |-> forcetype, bonds |-> <<>>, exclusions |-> <<>>, globals |-> <<>>,
     particles |-> <<>>, exceptions |-> <<>>, dielectric |-> None]

\* forcetype() with no argument: mm.CustomNonbondedForce is constructed from
\* its energy expression or from another force and has no constructor
\* without arguments, the call raises TypeError
Constructs(forcetype) == forcetype # "CustomNonbondedForce"

\* the system as the call leaves it, the force returned as its index in the
\* system, and raised, the exception that ended the call
RECURSIVE findForce(_, _, _)
findForce(sys, forcetype, add) ==
    LET hits == {n \in 1..Len(sys) : sys[n].type = forcetype}
    IN IF hits # {} THEN [system |-> sys, force |-> Min(hits), raised |-> "none"]
       ELSE IF add
            THEN IF Constructs(forcetype)
                 THEN findForce(Append(sys, NewForce(forcetype)), forcetype, TRUE)
                 ELSE [system |-> sys, force |-> None, raised |-> "TypeError"]
       ELSE [system |-> sys, force |-> None, raised |-> "none"]

\* mutant: the name test is missing, every parameter is overwritten
setGlobalForceParameterAll(force, key, value) ==
    LET g == force.globals
    IN [force EXCEPT !.globals = [i \in 1..Len(g) |-> [g[i] EXCEPT !.value = value]]]

\* mutant: the value is added to the stored default instead of replacing it
setGlobalForceParameterAdd(force, key, value) ==
    LET g == force.globals
    IN [force EXCEPT !.globals =
           [i \in 1..Len(g) |->
               IF g[i].name = key THEN [g[i] EXCEPT !.value = @ + value] ELSE g[i]]]

setGlobalForceParameter(force, key, value) ==
    LET g == force.globals
    IN [force EXCEPT !.globals =
           [i \in 1..Len(g) |->
               IF g[i].name = key THEN [g[i] EXCEPT !.value = value] ELSE g[i]]]

atomIndexInResidue(residue) == [n \in 1..Len(residue) |-> residue[n].index]

\* range(a, b): a, a+1, .., b-1
range(a, b) == [n \in 1..(IF b > a THEN b - a ELSE 0) |-> a + n - 1]

\* mutant: itertools.combinations_with_replacement, which pairs an element
\* with itself
RECURSIVE combinations2WithReplacement(_)
combinations2WithReplacement(s) ==
    IF Len(s) < 1 THEN <<>>
    ELSE [n \in 1..Len(s) |-> <<s[1], s[n]>>] \o combinations2WithReplacement(Tail(s))

\* itertools.combinations(s, 2): pairs of positions of s, lexicographic
RECURSIVE combinations2(_)
combinations2(s) ==
    IF Len(s) < 2 THEN <<>>
    ELSE [n \in 1..(Len(s) - 1) |-> <<s[1], s[n + 1]>>] \o combinations2(Tail(s))

\* mutant: range(index[0], index[-1]), the last atom left out
uniquePairsShort(index) == combinations2(range(index[1], index[Len(index)]))

\* mutant: range(0, index[-1]+1), the range starts at the first atom of the file
uniquePairsFromZero(index) == combinations2(range(0, index[Len(index)] + 1))

uniquePairs(index) == combinations2(range(index[1], index[Len(index)] + 1))

\* unit.norm(v), held as its square
Norm(v) == v[1] * v[1] + v[2] * v[2] + v[3] * v[3]

Minus(p, q) == <<p[1] - q[1], p[2] - q[2], p[3] - q[3]>>

\* positions[i] - positions[j] for the 0-based atom indices i, j
Distance(positions, i, j) == Norm(Minus(positions[i + 1], positions[j + 1]))

\* mutant: the comparison turned round
LessInverted(distance, threshold) == ~(threshold > 0 /\ distance < threshold * threshold)

\* distance < threshold, the distance held as its square
Less(distance, threshold) == threshold > 0 /\ distance < threshold * threshold

\* mutant: addBond called with the length and the force constant swapped
RECURSIVE addHarmonicConstraintSwapped(_, _, _, _, _)
addHarmonicConstraintSwapped(bonds, pairlist, positions, threshold, k) ==
    IF pairlist = <<>> THEN bonds
    ELSE LET i == pairlist[1][1]
             j == pairlist[1][2]
             distance == Distance(positions, i, j)
             added == IF Less(distance, threshold)
                      THEN Append(bonds, [i |-> i, j |-> j, length |-> k, k |-> distance])
                      ELSE bonds
         IN addHarmonicConstraintSwapped(added, Tail(pairlist), positions, threshold, k)

RECURSIVE addHarmonicConstraint(_, _, _, _, _)
addHarmonicConstraint(bonds, pairlist, positions, threshold, k) ==
    IF pairlist = <<>> THEN bonds
    ELSE LET i == pairlist[1][1]
             j == pairlist[1][2]
             distance == Distance(positions, i, j)
             added == IF Less(distance, threshold)
                      THEN Append(bonds, [i |-> i, j |-> j, length |-> distance, k |-> k])
                      ELSE bonds
         IN addHarmonicConstraint(added, Tail(pairlist), positions, threshold, k)

\* mutant: the exclusions are added whether or not a nonbonded force is given
rigidifyResidueAlways(sys, residue, harmonicforce, positions, nonbondedforce, threshold, k) ==
    LET index == atomIndexInResidue(residue)
        pairlist == uniquePairs(index)
        bonded == [sys EXCEPT ![harmonic].bonds =
                      addHarmonicConstraint(@, pairlist, pdb.positions, threshold, k)]
    IN [bonded EXCEPT ![nonbonded].exclusions = @ \o pairlist]

\* The body names the globals harmonic, pdb and nonbonded, not its arguments
\* harmonicforce and positions; nonbondedforce only decides the branch.
rigidifyResidue(sys, residue, harmonicforce, positions, nonbondedforce, threshold, k) ==
    LET index == atomIndexInResidue(residue)
        pairlist == uniquePairs(index)
        bonded == [sys EXCEPT ![harmonic].bonds =
                      addHarmonicConstraint(@, pairlist, pdb.positions, threshold, k)]
    IN IF nonbondedforce # None
       THEN [bonded EXCEPT ![nonbonded].exclusions = @ \o pairlist]
       ELSE bonded

\* cos and sin of k eighths of a turn, as [a, b] for (a + b*sqrt(2))/2
Cos8(k) ==
    CASE k % 8 = 0 -> [a |-> 2, b |-> 0]
      [] k % 8 \in {1, 7} -> [a |-> 0, b |-> 1]
      [] k % 8 \in {2, 6} -> [a |-> 0, b |-> 0]
      [] k % 8 \in {3, 5} -> [a |-> 0, b |-> -1]
      [] k % 8 = 4 -> [a |-> -2, b |-> 0]

Sin8(k) == Cos8(k + 6)

Plus(u, v) == [a |-> u.a + v.a, b |-> u.b + v.b]
Neg(u) == [a |-> -u.a, b |-> -u.b]

\* u * v up to the positive factor 2
Product(u, v) == [a |-> u.a * v.a + 2 * u.b * v.b, b |-> u.a * v.b + u.b * v.a]

\* the sign of (a + b*sqrt(2))/2: -1, 0 or 1
Sign(u) ==
    LET s == u.a * u.a - 2 * u.b * u.b
    IN IF u.a >= 0 /\ u.b >= 0 THEN (IF u.a = 0 /\ u.b = 0 THEN 0 ELSE 1)
       ELSE IF u.a <= 0 /\ u.b <= 0 THEN -1
       ELSE IF u.a > 0 THEN (IF s > 0 THEN 1 ELSE -1)
       ELSE (IF s < 0 THEN 1 ELSE -1)

RECURSIVE Sum(_)
Sum(values) == IF values = <<>> THEN [a |-> 0, b |-> 0] ELSE Plus(values[1], Sum(Tail(values)))

\* values.mean(), held as the sum and the count
Mean(values) == [sum |-> Sum(values), n |-> Len(values)]

\* np.divide(positions, box) * 2*np.pi on one axis, in eighths of a turn
Theta(positions, length, axis) ==
    [n \in 1..Len(positions) |-> (positions[n][axis] * 8) \div length]

\* np.cos(theta[:,axis]).mean() and np.sin(theta[:,axis]).mean()
MeanCos(theta) == Mean([n \in 1..Len(theta) |-> Cos8(theta[n])])
MeanSin(theta) == Mean([n \in 1..Len(theta) |-> Sin8(theta[n])])

\* np.arctan2(y, x) of two means over the same count: the angle of the
\* point (x, y), held as the vector of the two sums
ArcTan2(y, x) == [x |-> x.sum, y |-> y.sum]

\* angle + np.pi: the angle of the opposite vector
PlusPi(angle) == [x |-> Neg(angle.x), y |-> Neg(angle.y)]

NegMean(m) == [sum |-> Neg(m.sum), n |-> m.n]

\* mutant: every axis is divided by the first box length
centerOfMassFirstBox(positions, box) ==
    [axis \in 1..3 |->
        LET theta == Theta(positions, box[1], axis)
            x1 == MeanCos(theta)
            x2 == MeanSin(theta)
        IN [box |-> box[axis], angle |-> PlusPi(ArcTan2(NegMean(x1), NegMean(x2)))]]

\* per axis box * angle / (2*np.pi), held as the box length and the angle
centerOfMass(positions, box) ==
    [axis \in 1..3 |->
        LET theta == Theta(positions, box[axis], axis)
            x1 == MeanCos(theta)
            x2 == MeanSin(theta)
        IN [box |-> box[axis], angle |-> PlusPi(ArcTan2(NegMean(x1), NegMean(x2)))]]

\* the angle of k eighths of a turn
Unit(k) == [x |-> Cos8(k), y |-> Sin8(k)]

IsZero(angle) == Sign(angle.x) = 0 /\ Sign(angle.y) = 0

\* What the floating point evaluation can return.  Where both means vanish
\* in exact arithmetic, the rounding residue of the sums decides the angle:
\* any angle can come out, and another one on the next evaluation.
Outcomes(center) ==
    LET choices(axis) ==
            IF IsZero(center[axis].angle)
            THEN {[center[axis] EXCEPT !.angle = Unit(k)] : k \in 0..7}
            ELSE {center[axis]}
    IN {<<a, b, c>> : a \in choices(1), b \in choices(2), c \in choices(3)}

\* ------------------------------------------------- nacl.ipynb functions

\* the number scale = 1/sqrt(epsilon_r), and products of numbers c * scale^e
Scale == [c |-> 1, e |-> 1]
Times(x, y) == [c |-> x.c * y.c, e |-> x.e + y.e]

\* 'getParticleParameters' in dir(force), 'getExceptionParameters' in dir(force)
HasParticleParameters(force) == force.type \in {"NonbondedForce", "CustomNonbondedForce"}
HasExceptionParameters(force) == force.type = "NonbondedForce"

ScaleParticles(force, scale) ==
    LET p == force.particles
    IN [force EXCEPT !.particles =
           [i \in 1..Len(p) |-> [p[i] EXCEPT !.charge = Times(scale, p[i].charge)]]]

\* mutant: the charge product is multiplied by scale once
ScaleExceptionsOnce(force, scale) ==
    LET x == force.exceptions
    IN [force EXCEPT !.exceptions =
           [i \in 1..Len(x) |-> [x[i] EXCEPT !.chargeProd = Times(x[i].chargeProd, scale)]]]

ScaleExceptions(force, scale) ==
    LET x == force.exceptions
    IN [force EXCEPT !.exceptions =
           [i \in 1..Len(x) |->
               [x[i] EXCEPT !.chargeProd = Times(x[i].chargeProd, Times(scale, scale))]]]

scaleCharges(sys, scale) ==
    [n \in 1..Len(sys) |->
        LET scaled == IF HasParticleParameters(sys[n])
                      THEN ScaleParticles(sys[n], scale) ELSE sys[n]
        IN IF HasExceptionParameters(scaled)
           THEN ScaleExceptions(scaled, scale) ELSE scaled]

\* for i in system.getForces(): if isinstance(i, mm.NonbondedForce): ..
setReactionFieldDielectric(sys, value) ==
    [n \in 1..Len(sys) |->
        IF sys[n].type = "NonbondedForce" THEN [sys[n] EXCEPT !.dielectric = value]
        ELSE sys[n]]

\* Quantities of the analysis cell, held exactly: a rational coefficient by
\* its square c2 = n/d, and for every symbol twice its exponent
Symbols ==
    {"elementary_charge", "pi", "epsilon_0", "epsilon_r", "kB", "kelvin", "ten",
     "meter", "nanometer"}

RECURSIVE GCD(_, _)
GCD(a, b) == IF b = 0 THEN a ELSE GCD(b, a % b)

Ratio(n, d) == [n |-> n \div GCD(n, d), d |-> d \div GCD(n, d)]

Quantity(n) == [c2 |-> Ratio(n * n, 1), p |-> [s \in Symbols |-> 0]]

Symbol(name) == [Quantity(1) EXCEPT !.p[name] = 2]

Mul(u, v) ==
    [c2 |-> Ratio(u.c2.n * v.c2.n, u.c2.d * v.c2.d),
     p |-> [s \in Symbols |-> u.p[s] + v.p[s]]]

Inverse(u) == [c2 |-> [n |-> u.c2.d, d |-> u.c2.n], p |-> [s \in Symbols |-> -u.p[s]]]

Div(u, v) == Mul(u, Inverse(v))

Root(n) == CHOOSE r \in 0..n : r * r = n

\* unit.sqrt
sqrt(u) ==
    [c2 |-> [n |-> Root(u.c2.n), d |-> Root(u.c2.d)],
     p |-> [s \in Symbols |-> u.p[s] \div 2]]

\* mutant: the unit is renamed and the value is kept
in_units_of_renamed(u, unit) ==
    LET other == IF unit = "nanometer" THEN "meter" ELSE "nanometer"
    IN [u EXCEPT !.p[unit] = @ + u.p[other], !.p[other] = 0]

\* Quantity.in_units_of between meter and nanometer: a meter is 10^9 nanometer
in_units_of(u, unit) ==
    LET other == IF unit = "nanometer" THEN "meter" ELSE "nanometer"
        power == IF unit = "nanometer" THEN 9 ELSE -9
    IN [u EXCEPT !.p[unit] = @ + u.p[other], !.p[other] = 0,
                 !.p["ten"] = @ + power * u.p[other]]

\* epsilon_0 = 8.8541878176e-12*unit.farad/unit.meter
epsilon_0 == Div(Symbol("epsilon_0"), Symbol("meter"))

\* temperature = 300*unit.kelvin
temperature == Symbol("kelvin")

\* unit.BOLTZMANN_CONSTANT_kB, in joule/kelvin
BOLTZMANN_CONSTANT_kB == Div(Symbol("kB"), Symbol("kelvin"))

\* simulation.topology.getUnitCellDimensions()[0]**3, the edge in nanometer
Volume(box) ==
    LET edge == Mul(Quantity(box[1]), Symbol("nanometer"))
    IN Mul(Mul(edge, edge), edge)

\* lB = (elementary_charge**2 / (4*pi*epsilon_0*epsilon_r*kB*temperature))
\*      .in_units_of(unit.nanometer); with farad = coulomb^2/joule what is
\* left of the units is the meter of epsilon_0
BjerrumLength ==
    LET charge == Symbol("elementary_charge")
        below == Mul(Mul(Mul(Mul(Mul(Quantity(4), Symbol("pi")), epsilon_0),
                             Symbol("epsilon_r")), BOLTZMANN_CONSTANT_kB), temperature)
    IN in_units_of(Div(Mul(charge, charge), below), "nanometer")

\* lD = 1/unit.sqrt(4*math.pi*lB*N/V)
DebyeLength(lB, N, V) ==
    Inverse(sqrt(Div(Mul(Mul(Mul(Quantity(4), Symbol("pi")), lB), Quantity(N)), V)))

\* --------------------------------------------------------------- inputs

Atoms(first, n) == [m \in 1..n |-> [index |-> first + m - 1]]

\* the periodic box of the structure files, 10 nm a side (recorded box
\* volume 1000 nm^3)
Box == <<100, 100, 100>>

\* squares.pdb as the recorded output shows it: two residues of four atoms,
\* each a square of side 0.4 nm, the second 0.6 nm from the first.  The
\* recorded centerOfMass lines (2.3, 2.3, 2.5) and (2.3, 2.3, 1.9) are what
\* centerOfMass returns for squares centred at (0.2, 0.2, 0) and (0.2, 0.2, 0.6)
SquareAt(z) == <<<<0, 0, z>>, <<4, 0, z>>, <<4, 4, z>>, <<0, 4, z>>>>

Squares ==
    [residues |-> <<Atoms(0, 4), Atoms(4, 4)>>,
     positions |-> SquareAt(0) \o SquareAt(6),
     box |-> Box]

\* sample points: pairs at distance below, equal to and above 0.6 nm
Grid == {<<0, 0, 0>>, <<4, 0, 0>>, <<6, 0, 0>>, <<10, 4, 0>>}

\* the ways to cut the atoms first..first+n-1 into contiguous residues
RECURSIVE Residues(_, _)
Residues(first, n) ==
    IF n = 0 THEN {<<>>}
    ELSE UNION {{<<Atoms(first, m)>> \o rest : rest \in Residues(first + m, n - m)}
                : m \in 1..n}

GridFiles ==
    UNION {[residues : Residues(0, n), positions : {p \in SeqsUpTo(Grid, n) : Len(p) = n},
            box : {Box}]
           : n \in 1..MaxAtoms}

PDBFiles == {Squares} \cup GridFiles

ParamNames == {"lB", "kappa", "epsilon"}
ParamValues == {1, 7}

ParamLists == SeqsUpTo([name : ParamNames, value : ParamValues], MaxParams)

CustomNonbonded(params) == [NewForce("CustomNonbondedForce") EXCEPT !.globals = params]

\* forcefield.createSystem: the forces the force field file defines, then
\* the centre-of-mass motion remover
ForceFields ==
    {<<CustomNonbonded(p), NewForce("CMMotionRemover")>> : p \in ParamLists}
    \cup {<<NewForce("HarmonicBondForce"), CustomNonbonded(p), NewForce("CMMotionRemover")>>
          : p \in ParamLists}
    \cup {<<NewForce("HarmonicBondForce"), NewForce("CMMotionRemover")>>,
          <<NewForce("CMMotionRemover")>>}

\* yukawa.xml as the recorded output shows it: lB and kappa are parameters
YukawaXml ==
    <<CustomNonbonded(<<[name |-> "lB", value |-> 1], [name |-> "kappa", value |-> 1]>>),
      NewForce("CMMotionRemover")>>

Inputs ==
    [pdb : PDBFiles, forcefield : {YukawaXml}]
    \cup [pdb : {Squares}, forcefield : ForceFields]

\* the cubic boxes of the ion files, by their edge
IonBoxes == {<<e, e, e>> : e \in {5, 10}}

\* nacl.pdb: ions, each a residue of one atom, at sample points
IonFiles ==
    UNION {[residues : {[m \in 1..n |-> Atoms(m - 1, 1)]},
            positions : {p \in SeqsUpTo({<<0, 0, 0>>, <<4, 0, 0>>}, n) : Len(p) = n},
            box : IonBoxes]
           : n \in 1..MaxAtoms}

Number(c) == [c |-> c, e |-> 0]

Ion(c) == [charge |-> Number(c), sigma |-> 4, epsilon |-> 1]

\* cg.xml on a file of n ions: a NonbondedForce with a particle per ion, with
\* or without an exception between the first two, then the motion remover
IonForceFields(n) ==
    LET particles == {p \in SeqsUpTo({Ion(1), Ion(-1)}, n) : Len(p) = n}
        exception(p) == [p1 |-> 0, p2 |-> 1,
                         chargeProd |-> Times(p[1].charge, p[2].charge),
                         sigma |-> 4, epsilon |-> 1]
    IN {<<[NewForce("NonbondedForce") EXCEPT !.particles = p, !.exceptions = x],
          NewForce("CMMotionRemover")>>
        : p \in particles, x \in {<<>>}}
       \cup {<<[NewForce("NonbondedForce") EXCEPT !.particles = p,
                                                 !.exceptions = <<exception(p)>>],
               NewForce("CMMotionRemover")>>
             : p \in {q \in particles : n >= 2}}

NaClInputs ==
    UNION {[pdb : {f \in IonFiles : Len(f.positions) = n}, forcefield : IonForceFields(n)]
           : n \in 1..MaxAtoms}

\* ---------------------------------------------------------------- state

NoCall ==
    [op |-> "none", key |-> "", value |-> 0, residue |-> <<>>, pairlist |-> <<>>,
     harmonicforce |-> None, positions |-> <<>>, nonbondedforce |-> None,
     threshold |-> 0, k |-> 0]

\* the call made last
call == IF calls = <<>> THEN NoCall ELSE calls[Len(calls)]

\* centerOfMass not called yet
NoCenter ==
    [phase |-> "none", positions |-> <<>>, box |-> <<>>, center |-> <<>>,
     first |-> <<>>, shifted |-> None]

\* the analysis cell not run yet
NoAnalysis ==
    [N |-> None, V |-> None, lB |-> None, lD |-> None, loaded |-> FALSE,
     frames |-> None]

NoSimulation ==
    [context |-> FALSE, contextSystem |-> <<>>, positions |-> <<>>,
     minimized |-> FALSE, velocities |-> FALSE, currentStep |-> 0,
     reporters |-> <<>>]

Init ==
    /\ script \in {"yukawa", "nacl"}
    /\ pc = "createSystem"
    /\ input \in IF script = "yukawa" THEN Inputs ELSE NaClInputs
    /\ useMinimize \in BOOLEAN
    /\ pdb = [residues |-> <<>>, positions |-> <<>>, box |-> <<>>]
    /\ system = <<>>
    /\ harmonic = None
    /\ nonbonded = None
    /\ ri = 0
    /\ integrator = FALSE
    /\ simulation = NoSimulation
    /\ calls = <<>>
    /\ err = "none"
    /\ trace = <<>>
    /\ com = NoCenter
    /\ analysis = NoAnalysis

\* ---------------------------------------------------- setup cell (Spec)

\* pdb = app.PDBFile(..); forcefield = ..; system = forcefield.createSystem(..)
CreateSystem ==
    /\ pc = "createSystem"
    /\ pdb' = input.pdb
    /\ system' = input.forcefield
    /\ pc' = IF script = "yukawa" THEN "findHarmonic" ELSE "scaleCharges"
    /\ trace' = Append(trace, "createSystem")
    /\ UNCHANGED <<com, analysis, script, input, useMinimize, harmonic, nonbonded, ri, integrator,
                   simulation, calls, err>>

\* harmonic = findForce(system, mm.HarmonicBondForce)
FindHarmonic ==
    /\ pc = "findHarmonic"
    /\ LET r == findForce(system, "HarmonicBondForce", TRUE)
       IN /\ system' = r.system
          /\ harmonic' = r.force
          /\ err' = r.raised
          /\ pc' = IF r.raised = "none" THEN "findNonbonded" ELSE "aborted"
    /\ trace' = Append(trace, "findForce")
    /\ UNCHANGED <<com, analysis, script, input, useMinimize, pdb, nonbonded, ri, integrator,
                   simulation, calls>>

\* nonbonded = findForce(system, mm.CustomNonbondedForce)
FindNonbonded ==
    /\ pc = "findNonbonded"
    /\ LET r == findForce(system, "CustomNonbondedForce", TRUE)
       IN /\ system' = r.system
          /\ nonbonded' = r.force
          /\ err' = r.raised
          /\ pc' = IF r.raised = "none" THEN "setlB" ELSE "aborted"
    /\ trace' = Append(trace, "findForce")
    /\ UNCHANGED <<com, analysis, script, input, useMinimize, pdb, harmonic, ri, integrator,
                   simulation, calls>>

Override(key, value) ==
    /\ system' = [system EXCEPT ![nonbonded] = setGlobalForceParameter(@, key, value)]
    /\ calls' = Append(calls, [NoCall EXCEPT !.op = "setGlobalForceParameter", !.key = key,
                              !.value = value])

\* setGlobalForceParameter(nonbonded, 'lB', 0.7*unit.nanometer)
SetlB ==
    /\ pc = "setlB"
    /\ Override("lB", lBValue)
    /\ pc' = "setkappa"
    /\ trace' = Append(trace, "setGlobalForceParameter")
    /\ UNCHANGED <<com, analysis, script, input, useMinimize, pdb, harmonic, nonbonded, ri, integrator,
                   simulation, err>>

\* setGlobalForceParameter(nonbonded, 'kappa', 0.0)
Setkappa ==
    /\ pc = "setkappa"
    /\ Override("kappa", kappaValue)
    /\ pc' = "residues"
    /\ trace' = Append(trace, "setGlobalForceParameter")
    /\ UNCHANGED <<com, analysis, script, input, useMinimize, pdb, harmonic, nonbonded, ri, integrator,
                   simulation, err>>

Rigidify(residue, harmonicforce, positions, nonbondedforce, threshold, k) ==
    /\ system' = rigidifyResidue(system, residue, harmonicforce, positions,
                                 nonbondedforce, threshold, k)
    /\ calls' = Append(calls, [NoCall EXCEPT !.op = "rigidifyResidue", !.residue = residue,
                              !.pairlist = uniquePairs(atomIndexInResidue(residue)),
                              !.harmonicforce = harmonicforce,
                              !.positions = positions,
                              !.nonbondedforce = nonbondedforce,
                              !.threshold = threshold, !.k = k])

\* for residue in pdb.topology.residues(): .. rigidifyResidue(residue, ..)
ResidueLoop ==
    /\ pc = "residues"
    /\ ri < Len(pdb.residues)
    /\ Rigidify(pdb.residues[ri + 1], harmonic, pdb.positions, nonbonded,
                DefaultThreshold, DefaultK)
    /\ ri' = ri + 1
    /\ trace' = Append(trace, "rigidifyResidue")
    /\ UNCHANGED <<com, analysis, script, pc, input, useMinimize, pdb, harmonic, nonbonded, integrator,
                   simulation, err>>

\* nacl.ipynb: scaleCharges(system, scale=1/math.sqrt(epsilon_r))
ScaleCharges ==
    /\ pc = "scaleCharges"
    /\ system' = scaleCharges(system, Scale)
    /\ pc' = "setDielectric"
    /\ trace' = Append(trace, "scaleCharges")
    /\ UNCHANGED <<com, analysis, script, input, useMinimize, pdb, harmonic, nonbonded, ri, integrator,
                   simulation, calls, err>>

\* nacl.ipynb: for i in system.getForces(): .. i.setReactionFieldDielectric(epsilon_r)
SetDielectric ==
    /\ pc = "setDielectric"
    /\ system' = setReactionFieldDielectric(system, epsilon_r)
    /\ pc' = "integrator"
    /\ trace' = Append(trace, "setReactionFieldDielectric")
    /\ UNCHANGED <<com, analysis, script, input, useMinimize, pdb, harmonic, nonbonded, ri, integrator,
                   simulation, calls, err>>

\* integrator = mm.LangevinIntegrator(..); integrator.setConstraintTolerance(..)
ConstructIntegrator ==
    /\ \/ pc = "residues" /\ ri = Len(pdb.residues)
       \/ pc = "integrator"
    /\ integrator' = TRUE
    /\ pc' = "simulation"
    /\ trace' = Append(trace, "LangevinIntegrator")
    /\ UNCHANGED <<com, analysis, script, input, useMinimize, pdb, system, harmonic, nonbonded, ri,
                   simulation, calls, err>>

\* ------------------------------------------------------ run cell (Spec)

\* a reporter of the given interval that has written nothing yet
Reporter(kind, interval) ==
    [kind |-> kind, interval |-> interval, first |-> None, last |-> None,
     count |-> 0, closed |-> FALSE]

\* what a reporter has written once the step counter went from `from` to `to`:
\* one report at every multiple of its interval in from+1..to
Report(r, from, to) ==
    LET n == (to \div r.interval) - (from \div r.interval)
    IN IF n = 0 THEN r
       ELSE [r EXCEPT !.first = IF r.count = 0
                                THEN ((from \div r.interval) + 1) * r.interval
                                ELSE @,
                      !.last = (to \div r.interval) * r.interval,
                      !.count = @ + n]

\* simulation.step(steps)
Step(sim, steps) ==
    [sim EXCEPT !.currentStep = @ + steps,
                !.reporters = [n \in 1..Len(@) |->
                                  Report(@[n], sim.currentStep, sim.currentStep + steps)]]

\* simulation = app.Simulation(pdb.topology, system, integrator)
CreateSimulation ==
    /\ pc = "simulation"
    /\ simulation' = [simulation EXCEPT !.context = TRUE, !.contextSystem = system]
    /\ pc' = "setPositions"
    /\ trace' = Append(trace, "Simulation")
    /\ UNCHANGED <<com, analysis, script, input, useMinimize, pdb, system, harmonic, nonbonded, ri,
                   integrator, calls, err>>

\* simulation.context.setPositions(pdb.positions)
SetPositions ==
    /\ pc = "setPositions"
    /\ simulation' = [simulation EXCEPT !.positions = pdb.positions]
    /\ pc' = "minimize"
    /\ trace' = Append(trace, "setPositions")
    /\ UNCHANGED <<com, analysis, script, input, useMinimize, pdb, system, harmonic, nonbonded, ri,
                   integrator, calls, err>>

\* mutant: the minimizer runs whatever useMinimize says
MinimizeAlways ==
    /\ pc = "minimize"
    /\ simulation' = [simulation EXCEPT !.minimized = TRUE]
    /\ pc' = "setVelocities"
    /\ trace' = Append(trace, "minimizeEnergy")
    /\ UNCHANGED <<com, analysis, script, input, useMinimize, pdb, system, harmonic, nonbonded, ri,
                   integrator, calls, err>>

\* if useMinimize: simulation.minimizeEnergy()
Minimize ==
    /\ pc = "minimize"
    /\ useMinimize
    /\ simulation' = [simulation EXCEPT !.minimized = TRUE]
    /\ pc' = "setVelocities"
    /\ trace' = Append(trace, "minimizeEnergy")
    /\ UNCHANGED <<com, analysis, script, input, useMinimize, pdb, system, harmonic, nonbonded, ri,
                   integrator, calls, err>>

\* simulation.context.setVelocitiesToTemperature(300*unit.kelvin), reached
\* straight from setPositions when useMinimize is false
SetVelocities ==
    /\ \/ pc = "setVelocities"
       \/ pc = "minimize" /\ ~useMinimize
    /\ simulation' = [simulation EXCEPT !.velocities = TRUE]
    /\ pc' = "equilibrate"
    /\ trace' = Append(trace, "setVelocitiesToTemperature")
    /\ UNCHANGED <<com, analysis, script, input, useMinimize, pdb, system, harmonic, nonbonded, ri,
                   integrator, calls, err>>

\* simulation.step(steps_eq)
Equilibrate ==
    /\ pc = "equilibrate"
    /\ simulation' = Step(simulation, steps_eq)
    /\ pc' = "reporters"
    /\ trace' = Append(trace, "step(steps_eq)")
    /\ UNCHANGED <<com, analysis, script, input, useMinimize, pdb, system, harmonic, nonbonded, ri,
                   integrator, calls, err>>

\* steps_total = steps_eq + steps_production, of the notebook that runs
StepsProduction == IF script = "yukawa" THEN steps_production ELSE steps_production_nacl
steps_total == steps_eq + StepsProduction

\* simulation.reporters.append(HDF5Reporter(.., 100));
\* nacl.ipynb: simulation.reporters.append(app.PDBReporter(.., 1000));
\* simulation.reporters.append(StateDataReporter(stdout, int(steps_total/10), ..))
AttachReporters ==
    /\ pc = "reporters"
    /\ simulation' = [simulation EXCEPT !.reporters =
                         @ \o <<Reporter("HDF5Reporter", TrajectoryInterval)>>
                           \o (IF script = "nacl"
                               THEN <<Reporter("PDBReporter", PDBInterval)>> ELSE <<>>)
                           \o <<Reporter("StateDataReporter", steps_total \div 10)>>]
    /\ pc' = "production"
    /\ trace' = Append(trace, "reporters.append")
    /\ UNCHANGED <<com, analysis, script, input, useMinimize, pdb, system, harmonic, nonbonded, ri,
                   integrator, calls, err>>

\* simulation.step(steps_production); print('Done!')
Production ==
    /\ pc = "production"
    /\ simulation' = Step(simulation, StepsProduction)
    /\ pc' = "done"
    /\ trace' = Append(trace, "step(steps_production)")
    /\ UNCHANGED <<com, analysis, script, input, useMinimize, pdb, system, harmonic, nonbonded, ri,
                   integrator, calls, err>>

\* nacl.ipynb, analysis cell: N, V, lB, lD and the three lines printed
Lengths ==
    /\ script = "nacl"
    /\ pc = "done"
    /\ LET N == Len(pdb.positions)
           V == Volume(pdb.box)
           lB == BjerrumLength
       IN analysis' = [analysis EXCEPT !.N = N, !.V = V, !.lB = lB,
                                       !.lD = DebyeLength(lB, N, V)]
    /\ pc' = "close"
    /\ trace' = Append(trace, "lB")
    /\ UNCHANGED <<com, script, input, useMinimize, pdb, system, harmonic, nonbonded, ri,
                   integrator, simulation, calls, err>>

\* mutant: the reporter attached last is closed
CloseLastReporter ==
    /\ pc = "close"
    /\ simulation' = [simulation EXCEPT !.reporters[Len(simulation.reporters)].closed = TRUE]
    /\ pc' = "load"
    /\ trace' = Append(trace, "reporters[0].close")
    /\ UNCHANGED <<com, analysis, script, input, useMinimize, pdb, system, harmonic, nonbonded, ri,
                   integrator, calls, err>>

\* simulation.reporters[0].close()
CloseTrajectory ==
    /\ pc = "close"
    /\ simulation' = [simulation EXCEPT !.reporters[1].closed = TRUE]
    /\ pc' = "load"
    /\ trace' = Append(trace, "reporters[0].close")
    /\ UNCHANGED <<com, analysis, script, input, useMinimize, pdb, system, harmonic, nonbonded, ri,
                   integrator, calls, err>>

\* the reporters that write trajectory.h5
TrajectoryWriters ==
    {n \in 1..Len(simulation.reporters) : simulation.reporters[n].kind = "HDF5Reporter"}

\* traj = mdtraj.load('trajectory.h5'); r,g = mdtraj.compute_rdf(traj, ..):
\* the frames read are the reports written to the file
LoadTrajectory ==
    /\ pc = "load"
    /\ analysis' = [analysis EXCEPT !.loaded = TRUE,
                                    !.frames = simulation.reporters[Min(TrajectoryWriters)].count]
    /\ pc' = "analysed"
    /\ trace' = Append(trace, "mdtraj.load")
    /\ UNCHANGED <<com, script, input, useMinimize, pdb, system, harmonic, nonbonded, ri,
                   integrator, simulation, calls, err>>

Next ==
    \/ CreateSystem
    \/ FindHarmonic
    \/ FindNonbonded
    \/ SetlB
    \/ Setkappa
    \/ ResidueLoop
    \/ ScaleCharges
    \/ SetDielectric
    \/ ConstructIntegrator
    \/ CreateSimulation
    \/ SetPositions
    \/ Minimize
    \/ SetVelocities
    \/ Equilibrate
    \/ AttachReporters
    \/ Production
    \/ Lengths
    \/ CloseTrajectory
    \/ LoadTrajectory

Spec == Init /\ [][Next]_vars

\* ------------------------------------- the convenience functions (SpecCalls)

\* one residue of three atoms: its pairs are at 0.6 nm, above it and below it
Line ==
    [residues |-> <<Atoms(0, 3)>>,
     positions |-> <<<<0, 0, 0>>, <<6, 0, 0>>, <<10, 4, 0>>>>,
     box |-> Box]

CallFiles == {Squares, Line}

CallForceFields ==
    {YukawaXml,
     <<CustomNonbonded(<<>>), NewForce("CMMotionRemover")>>,
     <<NewForce("HarmonicBondForce"),
       CustomNonbonded(<<[name |-> "epsilon", value |-> 7], [name |-> "lB", value |-> 1]>>),
       NewForce("CMMotionRemover")>>}

Thresholds == {4, DefaultThreshold, 11}

\* the state once the setup cell has made pdb, system, harmonic and nonbonded
InitCalls ==
    /\ script = "yukawa"
    /\ pc = "calls"
    /\ input \in [pdb : CallFiles, forcefield : CallForceFields]
    /\ useMinimize = FALSE
    /\ pdb = input.pdb
    /\ LET h == findForce(input.forcefield, "HarmonicBondForce", TRUE)
           n == findForce(h.system, "CustomNonbondedForce", TRUE)
       IN /\ system = n.system
          /\ harmonic = h.force
          /\ nonbonded = n.force
    /\ ri = 0
    /\ integrator = FALSE
    /\ simulation = NoSimulation
    /\ calls = <<>>
    /\ err = "none"
    /\ trace = <<"createSystem", "findForce", "findForce">>
    /\ com = NoCenter
    /\ analysis = NoAnalysis

CallSetGlobalForceParameter ==
    /\ pc = "calls"
    /\ Len(calls) < MaxCalls
    /\ \E key \in ParamNames, value \in ParamValues : Override(key, value)
    /\ trace' = Append(trace, "setGlobalForceParameter")
    /\ UNCHANGED <<com, analysis, script, pc, input, useMinimize, pdb, harmonic, nonbonded, ri, integrator,
                   simulation, err>>

CallRigidifyResidue ==
    /\ pc = "calls"
    /\ Len(calls) < MaxCalls
    /\ \E n \in 1..Len(pdb.residues), threshold \in Thresholds,
          nonbondedforce \in {None, nonbonded} :
           Rigidify(pdb.residues[n], harmonic, pdb.positions, nonbondedforce,
                    threshold, DefaultK)
    /\ trace' = Append(trace, "rigidifyResidue")
    /\ UNCHANGED <<com, analysis, script, pc, input, useMinimize, pdb, harmonic, nonbonded, ri, integrator,
                   simulation, err>>

NextCalls ==
    \/ CallSetGlobalForceParameter
    \/ CallRigidifyResidue

SpecCalls == InitCalls /\ [][NextCalls]_vars

\* --------------------------- rigidifyResidue on other objects (SpecHandles)

\* a system with two harmonic and two nonbonded forces
HandleForceFields ==
    {<<NewForce("HarmonicBondForce"), CustomNonbonded(p), NewForce("HarmonicBondForce"),
       CustomNonbonded(<<>>), NewForce("CMMotionRemover")>>
     : p \in {<<>>, <<[name |-> "lB", value |-> 1]>>}}

\* positions other than pdb.positions: every coordinate doubled
Stretched(positions) ==
    [n \in 1..Len(positions) |-> [axis \in 1..3 |-> 2 * positions[n][axis]]]

HandlesOf(forcetype) == {n \in 1..Len(system) : system[n].type = forcetype}

\* the state once the setup cell has made pdb, system, harmonic and nonbonded
InitHandles ==
    /\ script = "yukawa"
    /\ pc = "calls"
    /\ input \in [pdb : CallFiles, forcefield : HandleForceFields]
    /\ useMinimize = FALSE
    /\ pdb = input.pdb
    /\ LET h == findForce(input.forcefield, "HarmonicBondForce", TRUE)
           n == findForce(h.system, "CustomNonbondedForce", TRUE)
       IN /\ system = n.system
          /\ harmonic = h.force
          /\ nonbonded = n.force
    /\ ri = 0
    /\ integrator = FALSE
    /\ simulation = NoSimulation
    /\ calls = <<>>
    /\ err = "none"
    /\ trace = <<"createSystem", "findForce", "findForce">>
    /\ com = NoCenter
    /\ analysis = NoAnalysis

\* rigidifyResidue(residue, harmonicforce, positions, nonbondedforce, threshold)
\* on any harmonic force, positions and nonbonded force
CallRigidifyResidueWith ==
    /\ pc = "calls"
    /\ Len(calls) < MaxCalls
    /\ \E n \in 1..Len(pdb.residues), threshold \in Thresholds,
          harmonicforce \in HandlesOf("HarmonicBondForce"),
          positions \in {pdb.positions, Stretched(pdb.positions)},
          nonbondedforce \in {None} \cup HandlesOf("CustomNonbondedForce") :
           Rigidify(pdb.residues[n], harmonicforce, positions, nonbondedforce,
                    threshold, DefaultK)
    /\ trace' = Append(trace, "rigidifyResidue")
    /\ UNCHANGED <<com, analysis, script, pc, input, useMinimize, pdb, harmonic, nonbonded, ri,
                   integrator, simulation, err>>

NextHandles == CallRigidifyResidueWith

SpecHandles == InitHandles /\ [][NextHandles]_vars

\* ------------------------------------------------- centerOfMass (SpecCenter)

\* boxes whose lengths divide the eighths of a turn, and points inside them
CenterBoxes == {<<8, 8, 8>>, <<8, 8, 4>>}

SamplePoints == {<<0, 0, 0>>, <<1, 2, 1>>, <<4, 2, 3>>, <<5, 6, 1>>, <<7, 3, 2>>}

PointSets == SeqsUpTo(SamplePoints, MaxPoints) \ {<<>>}

InitCenter ==
    /\ script = "yukawa"
    /\ pc = "centerOfMass"
    /\ input = [pdb |-> Squares, forcefield |-> YukawaXml]
    /\ useMinimize = FALSE
    /\ pdb = input.pdb
    /\ system = input.forcefield
    /\ harmonic = None
    /\ nonbonded = None
    /\ ri = 0
    /\ integrator = FALSE
    /\ simulation = NoSimulation
    /\ calls = <<>>
    /\ err = "none"
    /\ trace = <<"createSystem">>
    /\ com \in {[NoCenter EXCEPT !.phase = "new", !.positions = p, !.box = b]
                : p \in PointSets, b \in CenterBoxes}
    /\ analysis = NoAnalysis

\* centerOfMass(positions, box), on the points as given and again once they
\* have been shifted
ComputeCenter ==
    /\ pc = "centerOfMass"
    /\ com.phase \in {"new", "shifted"}
    /\ \E center \in Outcomes(centerOfMass(com.positions, com.box)) :
          com' = [com EXCEPT !.center = center,
                             !.first = IF com.phase = "new" THEN center ELSE @,
                             !.phase = IF com.phase = "new" THEN "computed"
                                       ELSE "recomputed"]
    /\ trace' = Append(trace, "centerOfMass")
    /\ UNCHANGED <<analysis, script, pc, input, useMinimize, pdb, system, harmonic,
                   nonbonded, ri, integrator, simulation, calls, err>>

\* every position moved by one box length along one axis
ShiftByBox ==
    /\ pc = "centerOfMass"
    /\ com.phase = "computed"
    /\ \E axis \in 1..3 :
          com' = [com EXCEPT
                     !.positions = [n \in 1..Len(@) |->
                                       [@[n] EXCEPT ![axis] = @ + com.box[axis]]],
                     !.shifted = axis,
                     !.phase = "shifted"]
    /\ UNCHANGED <<analysis, script, pc, input, useMinimize, pdb, system, harmonic,
                   nonbonded, ri, integrator, simulation, calls, err, trace>>

NextCenter ==
    \/ ComputeCenter
    \/ ShiftByBox

SpecCenter == InitCenter /\ [][NextCenter]_vars

\* ---------------------------------------------------------- properties

\* the number of positions of the sequence s that hold a value of the set S
Count(s, S) == Cardinality({n \in 1..Len(s) : s[n] \in S})

Bonds == IF harmonic = None THEN <<>> ELSE system[harmonic].bonds
Exclusions == IF nonbonded = None THEN <<>> ELSE system[nonbonded].exclusions
Globals == IF nonbonded = None THEN <<>> ELSE system[nonbonded].globals

\* the bonds of the sequence that join the atoms i and j
BondsOn(bonds, i, j) == {n \in 1..Len(bonds) : bonds[n].i = i /\ bonds[n].j = j}

\* the unordered pairs of distinct atoms of a residue, lower index first
PairsIn(residue) ==
    {<<a.index, b.index>> : a, b \in {residue[n] : n \in 1..Len(residue)}}
    \cap {p \in Int \X Int : p[1] < p[2]}

\* the step is a call of the named convenience function
Called(op) == Len(calls') = Len(calls) + 1 /\ calls'[Len(calls')].op = op

Rigidified == {pdb.residues[n] : n \in 1..ri}

\* C1: once residues have been rigidified with the nonbonded force supplied,
\* every excluded pair has a bond, and as many bonds as exclusions
C1_ExcludedPairsAreBonded ==
    \A n \in 1..Len(Exclusions) :
        LET p == Exclusions[n]
        IN /\ BondsOn(Bonds, p[1], p[2]) # {}
           /\ Cardinality(BondsOn(Bonds, p[1], p[2])) = Count(Exclusions, {p})

\* C2: a pair of a rigidified residue whose distance is at or above the
\* threshold has neither a bond nor an exclusion
C2_NothingAtOrAboveThreshold ==
    \A residue \in Rigidified : \A p \in PairsIn(residue) :
        ~Less(Distance(pdb.positions, p[1], p[2]), DefaultThreshold)
        => /\ BondsOn(Bonds, p[1], p[2]) = {}
           /\ Count(Exclusions, {p}) = 0

\* the atom indices of the residue are a contiguous ascending range
Contiguous(index) == \A n \in 1..Len(index) : index[n] = index[1] + n - 1

LexLess(p, q) == p[1] < q[1] \/ (p[1] = q[1] /\ p[2] < q[2])

\* C3: for a residue with the atom indices a..b, uniquePairs gives exactly the
\* pairs (i,j) with a <= i < j <= b, each once, in ascending lexicographic
\* order, n(n-1)/2 of them for n = b-a+1
C3_UniquePairsOfRange ==
    LET index == atomIndexInResidue(call.residue)
        a == index[1]
        b == index[Len(index)]
        n == b - a + 1
        pairlist == call.pairlist
    IN (call.op = "rigidifyResidue" /\ Contiguous(index))
       => /\ 2 * Len(pairlist) = n * (n - 1)
          /\ \A m \in 1..Len(pairlist) :
                /\ pairlist[m][1] \in a..b
                /\ pairlist[m][2] \in a..b
                /\ pairlist[m][1] < pairlist[m][2]
          /\ \A i, j \in a..b : i < j => \E m \in 1..Len(pairlist) : pairlist[m] = <<i, j>>
          /\ \A m \in 1..(Len(pairlist) - 1) : LexLess(pairlist[m], pairlist[m + 1])

C3_Witness ==
    /\ call.op = "rigidifyResidue"
    /\ Len(call.residue) = 4
    /\ call.residue[1].index = 4
    /\ Len(call.pairlist) = 6

\* C4: a call of rigidifyResidue gives every pair of the residue whose distance
\* is below the threshold exactly one more bond, of the measured distance as
\* length and of stiffness k, and, the nonbonded force supplied, exactly one
\* more exclusion
C4_OneBondPerClosePair ==
    [][Called("rigidifyResidue") =>
         LET c == calls'[Len(calls')]
             new == system'[harmonic].bonds
         IN \A p \in PairsIn(c.residue) :
               LET distance == Distance(pdb.positions, p[1], p[2])
               IN Less(distance, c.threshold) =>
                    /\ Cardinality(BondsOn(new, p[1], p[2]))
                          = Cardinality(BondsOn(Bonds, p[1], p[2])) + 1
                    /\ \A n \in BondsOn(new, p[1], p[2]) \ BondsOn(Bonds, p[1], p[2]) :
                          new[n].length = distance /\ new[n].k = c.k
                    /\ SubSeq(new, 1, Len(Bonds)) = Bonds
                    /\ c.nonbondedforce # None =>
                          Count(system'[nonbonded].exclusions, {p})
                             = Count(Exclusions, {p}) + 1]_vars

C4_Witness ==
    /\ call.op = "rigidifyResidue"
    /\ call.nonbondedforce # None
    /\ \E p \in PairsIn(call.residue) :
          /\ Less(Distance(pdb.positions, p[1], p[2]), call.threshold)
          /\ Cardinality(BondsOn(Bonds, p[1], p[2])) = 1
          /\ Count(Exclusions, {p}) = 1
    /\ \E p \in PairsIn(call.residue) :
          ~Less(Distance(pdb.positions, p[1], p[2]), call.threshold)

SquarePairs(a) ==
    <<<<a, a + 1>>, <<a, a + 2>>, <<a, a + 3>>, <<a + 1, a + 2>>, <<a + 1, a + 3>>,
      <<a + 2, a + 3>>>>

\* the recorded distances: 0.4 nm and 0.5657 nm, held as their squares
SquareLengths == <<16, 32, 16, 16, 32, 16>>

SquareBonds(a) ==
    [n \in 1..6 |-> [i |-> SquarePairs(a)[n][1], j |-> SquarePairs(a)[n][2],
                     length |-> SquareLengths[n], k |-> DefaultK]]

\* C5: with squares.pdb the first residue gets exactly the 6 bonds and the 6
\* exclusions (0,1),(0,2),(0,3),(1,2),(1,3),(2,3), and the second residue adds
\* the same pattern on 4..7 and nothing else
C5_SquaresScenario ==
    pdb = Squares =>
        /\ ri = 0 => Bonds = <<>> /\ Exclusions = <<>>
        /\ ri = 1 => Bonds = SquareBonds(0) /\ Exclusions = SquarePairs(0)
        /\ ri = 2 => /\ Bonds = SquareBonds(0) \o SquareBonds(4)
                     /\ Exclusions = SquarePairs(0) \o SquarePairs(4)

C5_Witness ==
    /\ pdb = Squares
    /\ ri = 2
    /\ Len(Bonds) = 12
    /\ Len(Exclusions) = 12

\* the parameter named key is in the force's global parameter list
Present(globals, key) == \E n \in 1..Len(globals) : globals[n].name = key

\* C6: setGlobalForceParameter gives the parameters of the given name the new
\* value and leaves the others as they were; with no parameter of that name it
\* raises nothing and changes nothing
C6_OverrideByName ==
    [][Called("setGlobalForceParameter") =>
         LET c == calls'[Len(calls')]
             new == system'[nonbonded].globals
         IN /\ Len(new) = Len(Globals)
            /\ \A n \in 1..Len(Globals) :
                  /\ new[n].name = Globals[n].name
                  /\ new[n].value = IF Globals[n].name = c.key THEN c.value
                                    ELSE Globals[n].value
            /\ \A f \in 1..Len(system) : f # nonbonded => system'[f] = system[f]
            /\ Len(system') = Len(system)
            /\ ~Present(Globals, c.key) => system' = system /\ err' = "none"]_vars

\* lB was overwritten beside another parameter, then kappa was not found
C6_Witness ==
    /\ Len(calls) = 2
    /\ calls[1].key = "lB"
    /\ call.key = "kappa"
    /\ ~Present(Globals, "kappa")
    /\ Len(Globals) = 2
    /\ Globals[1] = [name |-> "lB", value |-> lBValue]
    /\ Globals[2] = [name |-> "epsilon", value |-> 1]
    /\ input.forcefield[nonbonded].globals[1].value = 1
    /\ err = "none"

\* C7: overriding a parameter whose name the force does not have fails with a
\* ConfigurationError
C7_MissingNameFails ==
    (call.op = "setGlobalForceParameter" /\ ~Present(Globals, call.key))
    => err = "ConfigurationError"

\* C8: the same override applied a second time changes nothing
C8_OverrideIdempotent ==
    [][(/\ Called("setGlobalForceParameter")
        /\ call.op = "setGlobalForceParameter"
        /\ calls'[Len(calls')] = call) => system' = system]_vars

\* the same override twice, of a parameter that is there and had another value
C8_Witness ==
    /\ Len(calls) = 2
    /\ calls[1] = calls[2]
    /\ call.op = "setGlobalForceParameter"
    /\ \E n \in 1..Len(Globals) :
          /\ Globals[n].name = call.key
          /\ Globals[n].value = call.value
          /\ input.forcefield[nonbonded].globals[n].value # call.value

Stages ==
    <<"build", "override", "rigidify", "integrator", "context", "positions",
      "minimize", "velocities", "equilibrate", "reporters", "production", "analysis">>

Rank(stage) == CHOOSE n \in 1..Len(Stages) : Stages[n] = stage

\* the stage of the driver a statement belongs to
StageOf(statement) ==
    CASE statement \in {"createSystem", "findForce"} -> "build"
      [] statement \in {"setGlobalForceParameter", "scaleCharges",
                        "setReactionFieldDielectric"} -> "override"
      [] statement = "rigidifyResidue" -> "rigidify"
      [] statement = "LangevinIntegrator" -> "integrator"
      [] statement = "Simulation" -> "context"
      [] statement = "setPositions" -> "positions"
      [] statement = "minimizeEnergy" -> "minimize"
      [] statement = "setVelocitiesToTemperature" -> "velocities"
      [] statement = "step(steps_eq)" -> "equilibrate"
      [] statement = "reporters.append" -> "reporters"
      [] statement = "step(steps_production)" -> "production"
      [] statement \in {"lB", "reporters[0].close", "mdtraj.load"} -> "analysis"

Repeats == {"build", "override", "rigidify", "analysis"}

\* the stages a run leaves out: minimize when useMinimize is false, and
\* rigidify in nacl.ipynb, which has no rigid bodies
Skipped == (IF useMinimize THEN {} ELSE {"minimize"})
           \cup (IF script = "nacl" THEN {"rigidify"} ELSE {})

\* C9: the stages run in the one order, none skipped but minimize when
\* useMinimize is false; the forces do not change once the context is bound;
\* no reporter writes a step at or before steps_eq; the run ends at step
\* steps_eq + steps_production
C9_StageOrder ==
    LET rank == [m \in 1..Len(trace) |-> Rank(StageOf(trace[m]))]
    IN /\ trace # <<>> => rank[1] = 1
       /\ \A m \in 1..(Len(trace) - 1) :
             \/ rank[m + 1] = rank[m] /\ Stages[rank[m]] \in Repeats
             \/ /\ rank[m + 1] > rank[m]
                /\ \A r \in (rank[m] + 1)..(rank[m + 1] - 1) : Stages[r] \in Skipped
       /\ \A m \in 1..Len(trace) : Stages[rank[m]] = "minimize" => useMinimize
       /\ simulation.context => system = simulation.contextSystem
       /\ simulation.reporters # <<>> => simulation.currentStep >= steps_eq
       /\ \A n \in 1..Len(simulation.reporters) :
             simulation.reporters[n].count > 0 => simulation.reporters[n].first > steps_eq
       /\ pc \in {"done", "close", "load", "analysed"}
             => simulation.currentStep = steps_eq + StepsProduction

C9_Witness ==
    /\ script = "yukawa"
    /\ pc = "done"
    /\ useMinimize
    /\ simulation.minimized
    /\ Len(pdb.residues) = 3
    /\ simulation.reporters[1].first = steps_eq + TrajectoryInterval
    /\ simulation.reporters[1].last = steps_total
    /\ simulation.reporters[1].count * TrajectoryInterval = StepsProduction

\* C10: rigidifyResidue on a residue of one atom has an empty pair list, adds
\* no bond and no exclusion and raises nothing
C10_SingleAtomResidue ==
    [][(Called("rigidifyResidue") /\ Len(calls'[Len(calls')].residue) = 1)
         => /\ calls'[Len(calls')].pairlist = <<>>
            /\ system' = system
            /\ err' = "none"]_vars

C10_Witness ==
    /\ call.op = "rigidifyResidue"
    /\ Len(call.residue) = 1
    /\ call.residue[1].index = 1
    /\ Len(pdb.residues) = 3
    /\ ri = 2

\* two angles are equal: their vectors point the same way
SameAngle(u, v) ==
    /\ Sign(Plus(Product(u.x, v.y), Neg(Product(u.y, v.x)))) = 0
    /\ Sign(Plus(Product(u.x, v.x), Product(u.y, v.y))) = 1

\* the point the centre lies at equals the coordinate x on the axis
CenterAt(center, x, axis) ==
    /\ center[axis].box = com.box[axis]
    /\ SameAngle(center[axis].angle, Unit((x * 8) \div com.box[axis]))

\* C11: centerOfMass of one point inside the box is that point, on every axis
C11_SinglePointIsItsCentre ==
    (com.phase = "computed" /\ Len(com.positions) = 1)
    => \A axis \in 1..3 : CenterAt(com.center, com.positions[1][axis], axis)

\* the means of cos and sin do not both vanish on the axis
Stable(positions, box, axis) ==
    LET theta == [n \in 1..Len(positions) |-> (positions[n][axis] * 8) \div box[axis]]
    IN \/ Sign(Sum([n \in 1..Len(theta) |-> Cos8(theta[n])])) # 0
       \/ Sign(Sum([n \in 1..Len(theta) |-> Sin8(theta[n])])) # 0

\* C12 as stated: the centre of the shifted points is the centre of the points
C12_ShiftInvariant ==
    com.phase = "recomputed"
    => \A axis \in 1..3 :
          /\ com.center[axis].box = com.first[axis].box
          /\ SameAngle(com.center[axis].angle, com.first[axis].angle)

\* C12 as amended: the centre of the points shifted by a box length along an
\* axis is the centre of the points, on every axis on which the means of cos
\* and sin do not both vanish
C12_ShiftInvariantWhereStable ==
    com.phase = "recomputed"
    => \A axis \in 1..3 :
          Stable(com.positions, com.box, axis)
          => /\ com.center[axis].box = com.first[axis].box
             /\ SameAngle(com.center[axis].angle, com.first[axis].angle)

C12_Witness ==
    /\ com.phase = "recomputed"
    /\ Len(com.positions) = 2
    /\ com.shifted = 3
    /\ com.box[3] = 4
    /\ com.positions[1] # com.positions[2]
    /\ \A axis \in 1..3 : Stable(com.positions, com.box, axis)

\* e^2/(4*pi*epsilon_0*epsilon_r*k_B*T) in nanometer: the coefficient 1/4 and
\* 10^9 nanometer to the meter
lBExpected ==
    [c2 |-> [n |-> 1, d |-> 16],
     p |-> [s \in Symbols |->
              CASE s = "elementary_charge" -> 4
                [] s \in {"pi", "epsilon_0", "epsilon_r", "kB"} -> -2
                [] s = "ten" -> 18
                [] s = "nanometer" -> 2
                [] OTHER -> 0]]

\* C13: the Bjerrum length of the analysis is e^2/(4*pi*epsilon_0*epsilon_r*
\* k_B*T), whatever the particle count and the box; the Debye length is the
\* length whose square times 4*pi*lB*N is V
C13_BjerrumLength ==
    analysis.N # None
    => /\ analysis.lB = lBExpected
       /\ Mul(Mul(Mul(Mul(analysis.lD, analysis.lD), Quantity(4)), Symbol("pi")),
              Mul(lBExpected, Quantity(analysis.N)))
          = Mul(Mul(Quantity(pdb.box[1] * pdb.box[1]), Quantity(pdb.box[1])),
                [Quantity(1) EXCEPT !.p["nanometer"] = 6])

C13_Witness ==
    /\ analysis.N # None
    /\ analysis.N = 2
    /\ pdb.box[1] = 5
    /\ analysis.lB = lBExpected
    /\ analysis.lD.c2 = [n |-> 125, d |-> 2]

\* the number x times the s of scaleCharges(system, s), m times over
TimesScale(x, m) == [c |-> x.c, e |-> x.e + m]

C15_FindForceReturns ==
    [][(pc = "findHarmonic" \/ pc = "findNonbonded")
         => (LET forcetype == IF pc = "findHarmonic" THEN "HarmonicBondForce"
                             ELSE "CustomNonbondedForce"
                found == IF pc = "findHarmonic" THEN harmonic' ELSE nonbonded'
                hits == {n \in 1..Len(system) : system[n].type = forcetype}
            IN /\ err' = "none"
               /\ found \in 1..Len(system')
               /\ system'[found].type = forcetype
               /\ hits # {} => system' = system /\ \A n \in hits : found <= n
               /\ hits = {} => system' = Append(system, NewForce(forcetype)))]_vars

\* C16: a call of rigidifyResidue with nonbondedforce=None adds a bond for
\* every pair of the residue below the threshold, and for no other, and leaves
\* the exclusions of every force as they were
C16_NoForceNoExclusion ==
    [][(Called("rigidifyResidue") /\ calls'[Len(calls')].nonbondedforce = None)
         => (LET c == calls'[Len(calls')]
                 old == system[c.harmonicforce].bonds
                 new == system'[c.harmonicforce].bonds
             IN /\ Len(system') = Len(system)
                /\ \A n \in 1..Len(system) : system'[n].exclusions = system[n].exclusions
                /\ \A p \in PairsIn(c.residue) :
                      Cardinality(BondsOn(new, p[1], p[2]))
                        = Cardinality(BondsOn(old, p[1], p[2]))
                          + (IF Less(Distance(pdb.positions, p[1], p[2]), c.threshold)
                             THEN 1 ELSE 0))]_vars

C16_Witness ==
    /\ Len(calls) = 1
    /\ call.op = "rigidifyResidue"
    /\ call.nonbondedforce = None
    /\ Len(call.residue) = 3
    /\ Len(Bonds) = 1
    /\ Bonds[1].i = 1 /\ Bonds[1].j = 2
    /\ \A n \in 1..Len(system) : system[n].exclusions = <<>>

\* C17: a call of rigidifyResidue changes the harmonic force and the
\* nonbonded force it is given and nothing else, and the bonds it adds are
\* those of the pairs below the threshold in the positions it is given, of
\* the distance measured there
C17_ArgumentsOnly ==
    [][Called("rigidifyResidue")
         => (LET c == calls'[Len(calls')]
                 old == system[c.harmonicforce].bonds
                 new == system'[c.harmonicforce].bonds
             IN /\ Len(system') = Len(system)
                /\ \A n \in 1..Len(system) :
                      n \notin {c.harmonicforce, c.nonbondedforce} => system'[n] = system[n]
                /\ \A p \in PairsIn(c.residue) :
                      LET distance == Distance(c.positions, p[1], p[2])
                      IN /\ Cardinality(BondsOn(new, p[1], p[2]))
                              = Cardinality(BondsOn(old, p[1], p[2]))
                                + (IF Less(distance, c.threshold) THEN 1 ELSE 0)
                         /\ \A n \in BondsOn(new, p[1], p[2]) \ BondsOn(old, p[1], p[2]) :
                               new[n].length = distance)]_vars

\* the residues of the file that hold the atom
ResiduesOf(atom) ==
    {n \in 1..Len(pdb.residues) : \E m \in 1..Len(pdb.residues[n]) :
                                     pdb.residues[n][m].index = atom}

\* C18: once the loop has rigidified every residue, no pair of atoms has more
\* than one bond or more than one exclusion, and the two atoms of every bond
\* and of every exclusion are distinct atoms of one residue
C18_OnePerPairWithinResidue ==
    (script = "yukawa" /\ pc \notin {"createSystem", "aborted"} /\ ri = Len(pdb.residues))
    => /\ \A n, m \in 1..Len(Bonds) :
             {Bonds[n].i, Bonds[n].j} = {Bonds[m].i, Bonds[m].j} => n = m
       /\ \A n, m \in 1..Len(Exclusions) :
             {Exclusions[n][1], Exclusions[n][2]} = {Exclusions[m][1], Exclusions[m][2]}
             => n = m
       /\ \A n \in 1..Len(Bonds) :
             /\ Bonds[n].i # Bonds[n].j
             /\ ResiduesOf(Bonds[n].i) \cap ResiduesOf(Bonds[n].j) # {}
       /\ \A n \in 1..Len(Exclusions) :
             /\ Exclusions[n][1] # Exclusions[n][2]
             /\ ResiduesOf(Exclusions[n][1]) \cap ResiduesOf(Exclusions[n][2]) # {}

C18_Witness ==
    /\ script = "yukawa"
    /\ pc = "simulation"
    /\ ri = 2
    /\ Len(pdb.residues) = 2
    /\ Len(pdb.residues[2]) = 4
    /\ Len(Bonds) = 12
    /\ Len(Exclusions) = 12

\* C19: when the trajectory is read back, every production step has run and
\* the reporter that wrote it, the first one attached, has been closed
C19_LoadAfterClose ==
    analysis.loaded
    => /\ script = "nacl"
       /\ simulation.currentStep = steps_eq + steps_production_nacl
       /\ simulation.reporters[1].kind = "HDF5Reporter"
       /\ simulation.reporters[1].closed
       /\ simulation.reporters[1].last = simulation.currentStep
       /\ analysis.frames * TrajectoryInterval = steps_production_nacl

C19_Witness ==
    /\ pc = "analysed"
    /\ analysis.loaded
    /\ simulation.reporters[1].closed
    /\ ~simulation.reporters[2].closed
    /\ analysis.frames = simulation.reporters[1].count
    /\ Len(pdb.positions) = 3
====
